---- MODULE Spec2Model ----
(***************************************************************************)
(* voncount (src/lib.rs): ReadCounter and WriteCounter, two wrappers that  *)
(* delegate read / write / flush to a borrowed stream and keep a running   *)
(* usize count of the bytes the stream reported.                           *)
(*                                                                         *)
(* usize is modelled at its 64-bit width as four 16-bit limbs, least       *)
(* significant first, so that `self.count += size` is computed exactly.    *)
(* The addition's behaviour on overflow depends on the build profile       *)
(* (overflow checks on: panic; off, the release default: wrap), which the  *)
(* model keeps as the variable overflow_checks, chosen in Init.            *)
(*                                                                         *)
(* A byte slice can be up to isize::MAX bytes long.  A buffer is modelled  *)
(* by its exact length (a usize) and a window holding its first MaxBuf     *)
(* bytes.  The wrapped streams are the type parameter T: their results     *)
(* are chosen by the environment within the std::io contract               *)
(* (Ok(n) with n <= buffer length, or Err(kind)).                          *)
(***************************************************************************)
EXTENDS Integers, Sequences, FiniteSets, TLC

\* ------------------------------------------------------------------ bounds

\* Bytes of a buffer whose content the model tracks.
MaxBuf == 1
\* read, write and flush calls a wrapped stream serves, directly or through a wrapper.
MaxCalls == 3

\* ------------------------------------------------------------- usize values

\* The base of one limb: a usize is four 16-bit limbs, least significant first.
LimbBase == 65536

\* The usize with value n, for 0 <= n < LimbBase.
U(n) == <<n, 0, 0, 0>>

Zero == U(0)

\* isize::MAX = 2^63 - 1, the length of the longest slice; usize::MAX is 2^64 - 1.
IsizeMax == <<65535, 65535, 65535, 32767>>

\* Ripple-carry addition of two limb sequences of the same length, from limb i.
RECURSIVE AddFrom(_, _, _, _)
AddFrom(a, b, i, carry) ==
  IF i > Len(a)
  THEN [digits |-> <<>>, carry |-> carry]
  ELSE LET t == a[i] + b[i] + carry
           rest == AddFrom(a, b, i + 1, t \div LimbBase)
       IN [digits |-> <<t % LimbBase>> \o rest.digits, carry |-> rest.carry]

\* a <= b for limb sequences of the same length (most significant limb last).
RECURSIVE LeqFrom(_, _, _)
LeqFrom(a, b, i) ==
  IF i = 0 THEN TRUE
  ELSE IF a[i] # b[i] THEN a[i] < b[i]
  ELSE LeqFrom(a, b, i - 1)

Leq(a, b) == LeqFrom(a, b, Len(a))

\* min(n, MaxBuf) as a model integer: how much of a transfer falls in the window.
Fill(n) ==
  IF (\A i \in 2..Len(n) : n[i] = 0) /\ n[1] <= MaxBuf THEN n[1] ELSE MaxBuf

\* An exact (unbounded) total of usize values: one limb wider than a usize.
Widen(n) == n \o <<0>>

WideAdd(total, n) == AddFrom(total, Widen(n), 1, 0).digits

\* ------------------------------------------------------------ usize `+=`

\* The outcome of `count += size` on usize.
\*   overflow checks on  (debug profile):   panic when the sum exceeds usize::MAX
\*   overflow checks off (release profile): the sum modulo 2^64
AddAssign(count, size, checks) ==
  LET s == AddFrom(count, size, 1, 0)
  IN IF s.carry # 0 /\ checks
     THEN [panic |-> TRUE, value |-> count]
     ELSE [panic |-> FALSE, value |-> s.digits]

\* ------------------------------------------------------------- io::Result

Ok(size) == [tag |-> "Ok", size |-> size, kind |-> "-"]

Err(kind) == [tag |-> "Err", size |-> Zero, kind |-> kind]

\* No call has returned yet.
NoRet == [tag |-> "None", size |-> Zero, kind |-> "-"]

\* The call did not return: it panicked ("attempt to add with overflow").
Panic == [tag |-> "Panic", size |-> Zero, kind |-> "-"]

\* io::ErrorKind values the wrapped streams fail with.
ErrKinds == {"Interrupted", "BrokenPipe"}

\* ------------------------------------------------------------------ buffers

\* const DATA: &'static [u8] = &[1u8, 2u8, 3u8];
DATA == <<1, 2, 3>>

\* n consecutive bytes of DATA repeated, from offset o.
RECURSIVE Slice(_, _)
Slice(o, n) ==
  IF n = 0 THEN <<>>
  ELSE <<DATA[(o % Len(DATA)) + 1]>> \o Slice(o + 1, n - 1)

\* The byte contents of length n: the runs of DATA from each of its positions
\* (for n = 1 the bytes [1], [2], [3] of tests::read and tests::write).
Contents(n) == {Slice(o, n) : o \in 0..(Len(DATA) - 1)}

\* Buffer lengths: every length with its whole content in the window, and the
\* longest slice.
BufLens == {U(k) : k \in 0..MaxBuf} \cup {IsizeMax}

\* A caller's read buffer: zero-filled, as `[0u8]` in tests::read.
RECURSIVE Zeros(_)
Zeros(n) == IF n = 0 THEN <<>> ELSE <<0>> \o Zeros(n - 1)

ReadBuffers == {[len |-> l, win |-> Zeros(Fill(l))] : l \in BufLens}

\* A caller's write buffer: any content.
WriteBuffers == UNION {{[len |-> l, win |-> w] : w \in Contents(Fill(l))} : l \in BufLens}

\* ---------------------------------------------- the wrapped streams (T)

\* What T::read may do with a buffer: report n <= buffer.len() bytes and place
\* them at the front of the buffer, or fail.
ReadChoices(buffer) ==
  UNION {{[ok |-> TRUE, size |-> n, bytes |-> d, kind |-> "-"] : d \in Contents(Fill(n))}
         : n \in {m \in BufLens : Leq(m, buffer.len)}}
  \cup {[ok |-> FALSE, size |-> Zero, bytes |-> <<>>, kind |-> k] : k \in ErrKinds}

\* What T::write may do with a buffer: accept its first n <= buffer.len() bytes,
\* or fail.
WriteChoices(buffer) ==
  {[ok |-> TRUE, size |-> n, kind |-> "-"] : n \in {m \in BufLens : Leq(m, buffer.len)}}
  \cup {[ok |-> FALSE, size |-> Zero, kind |-> k] : k \in ErrKinds}

\* What T::flush may do.
FlushChoices == {[ok |-> TRUE, kind |-> "-"]} \cup {[ok |-> FALSE, kind |-> k] : k \in ErrKinds}

\* A fresh stream: nothing called, nothing transferred.
\*   calls, flushes  how often read/write and flush were called on it
\*   data            the window bytes it produced (a reader) or accepted (a writer)
\*   arg             the buffer its last read/write call was given
\*   last            the result of its last call
NewStream ==
  [calls |-> 0, flushes |-> 0, data |-> <<>>, arg |-> [len |-> Zero, win |-> <<>>], last |-> NoRet]

\* self.reader.read(buffer)
InnerRead(stream, buffer, choice) ==
  IF choice.ok
  THEN [stream |-> [stream EXCEPT !.calls = @ + 1, !.data = @ \o choice.bytes,
                                  !.arg = buffer, !.last = Ok(choice.size)],
        buffer |-> [buffer EXCEPT !.win = choice.bytes \o SubSeq(@, Len(choice.bytes) + 1, Len(@))],
        ret |-> Ok(choice.size)]
  ELSE [stream |-> [stream EXCEPT !.calls = @ + 1, !.arg = buffer, !.last = Err(choice.kind)],
        buffer |-> buffer,
        ret |-> Err(choice.kind)]

\* self.writer.write(buffer)
InnerWrite(stream, buffer, choice) ==
  IF choice.ok
  THEN [stream |-> [stream EXCEPT !.calls = @ + 1,
                                  !.data = @ \o SubSeq(buffer.win, 1, Fill(choice.size)),
                                  !.arg = buffer, !.last = Ok(choice.size)],
        ret |-> Ok(choice.size)]
  ELSE [stream |-> [stream EXCEPT !.calls = @ + 1, !.arg = buffer, !.last = Err(choice.kind)],
        ret |-> Err(choice.kind)]

\* self.writer.flush()
InnerFlush(stream, choice) ==
  LET ret == IF choice.ok THEN Ok(Zero) ELSE Err(choice.kind)
  IN [stream |-> [stream EXCEPT !.flushes = @ + 1, !.last = ret], ret |-> ret]

\* ------------------------------------------------------------ ReadCounter

\* Mutant of ReadCounter_from: the count starts at the number of bytes the stream
\* has already produced instead of 0.
ReadCounter_from_Inherit(value) == [self |-> [count |-> U(Len(value.data))], stream |-> value]

\* ReadCounter::from(value): the wrapper holds `value` by reference; the result
\* names the wrapper struct and the state the wrapped stream is left in.
ReadCounter_from(value) == [self |-> [count |-> Zero], stream |-> value]

\* Counter::count for ReadCounter.
ReadCounter_count(self) == self.count

\* Mutant of ReadCounter_read: the count is advanced by the buffer's length before
\* the result of the inner read is looked at, so a failed read counts too.
ReadCounter_read_CountFirst(self, stream, buffer, choice, checks) ==
  LET inner == InnerRead(stream, buffer, choice)
      add == AddAssign(self.count, buffer.len, checks)
  IN [self |-> [self EXCEPT !.count = add.value],
      stream |-> inner.stream, buffer |-> inner.buffer,
      ret |-> IF add.panic THEN Panic ELSE inner.ret, panic |-> add.panic]

\* Mutant of ReadCounter_read: the inner read fills a scratch buffer of the same
\* length, which is never copied back to the caller's buffer.
ReadCounter_read_Scratch(self, stream, buffer, choice, checks) ==
  LET inner == InnerRead(stream, [len |-> buffer.len, win |-> Zeros(Len(buffer.win))], choice)
  IN IF inner.ret.tag = "Err"
     THEN [self |-> self, stream |-> inner.stream, buffer |-> buffer,
           ret |-> inner.ret, panic |-> FALSE]
     ELSE LET size == inner.ret.size
              add == AddAssign(self.count, size, checks)
          IN [self |-> [self EXCEPT !.count = add.value],
              stream |-> inner.stream, buffer |-> buffer,
              ret |-> IF add.panic THEN Panic ELSE Ok(size), panic |-> add.panic]

\* Mutant of ReadCounter_read: an Interrupted inner read is retried once.
ReadCounter_read_Retry(self, stream, buffer, choice, checks) ==
  LET first == InnerRead(stream, buffer, choice)
      inner == IF first.ret.tag = "Err" /\ first.ret.kind = "Interrupted"
               THEN InnerRead(first.stream, first.buffer, choice)
               ELSE first
  IN IF inner.ret.tag = "Err"
     THEN [self |-> self, stream |-> inner.stream, buffer |-> inner.buffer,
           ret |-> inner.ret, panic |-> FALSE]
     ELSE LET size == inner.ret.size
              add == AddAssign(self.count, size, checks)
          IN [self |-> [self EXCEPT !.count = add.value],
              stream |-> inner.stream, buffer |-> inner.buffer,
              ret |-> IF add.panic THEN Panic ELSE Ok(size), panic |-> add.panic]

\* ReadCounter::read(buffer), run against the wrapped stream `stream`, whose
\* behaviour in this call is `choice`; `checks` is the build's overflow checking.
\*   let size = self.reader.read(buffer)?;  self.count += size;  Ok(size)
ReadCounter_read(self, stream, buffer, choice, checks) ==
  LET inner == InnerRead(stream, buffer, choice)
  IN IF inner.ret.tag = "Err"
     THEN [self |-> self, stream |-> inner.stream, buffer |-> inner.buffer,
           ret |-> inner.ret, panic |-> FALSE]
     ELSE LET size == inner.ret.size
              add == AddAssign(self.count, size, checks)
          IN [self |-> [self EXCEPT !.count = add.value],
              stream |-> inner.stream, buffer |-> inner.buffer,
              ret |-> IF add.panic THEN Panic ELSE Ok(size), panic |-> add.panic]

\* ----------------------------------------------------------- WriteCounter

\* WriteCounter::from(value).
WriteCounter_from(value) == [self |-> [count |-> Zero], stream |-> value]

\* Counter::count for WriteCounter.
WriteCounter_count(self) == self.count

\* Mutant of WriteCounter_write: a successful write is taken to have written the
\* whole buffer.
WriteCounter_write_WholeBuffer(self, stream, buffer, choice, checks) ==
  LET inner == InnerWrite(stream, buffer, choice)
  IN IF inner.ret.tag = "Err"
     THEN [self |-> self, stream |-> inner.stream, ret |-> inner.ret, panic |-> FALSE]
     ELSE LET size == buffer.len
              add == AddAssign(self.count, size, checks)
          IN [self |-> [self EXCEPT !.count = add.value], stream |-> inner.stream,
              ret |-> IF add.panic THEN Panic ELSE Ok(size), panic |-> add.panic]

\* WriteCounter::write(buffer).
\*   let size = self.writer.write(buffer)?;  self.count += size;  Ok(size)
WriteCounter_write(self, stream, buffer, choice, checks) ==
  LET inner == InnerWrite(stream, buffer, choice)
  IN IF inner.ret.tag = "Err"
     THEN [self |-> self, stream |-> inner.stream, ret |-> inner.ret, panic |-> FALSE]
     ELSE LET size == inner.ret.size
              add == AddAssign(self.count, size, checks)
          IN [self |-> [self EXCEPT !.count = add.value], stream |-> inner.stream,
              ret |-> IF add.panic THEN Panic ELSE Ok(size), panic |-> add.panic]

\* Mutant of WriteCounter_flush: a successful flush is counted as one byte.
WriteCounter_flush_Counts(self, stream, choice) ==
  LET inner == InnerFlush(stream, choice)
  IN [self |-> IF inner.ret.tag = "Ok"
               THEN [self EXCEPT !.count = AddAssign(@, U(1), FALSE).value]
               ELSE self,
      stream |-> inner.stream, ret |-> inner.ret]

\* WriteCounter::flush().
\*   self.writer.flush()
WriteCounter_flush(self, stream, choice) ==
  LET inner == InnerFlush(stream, choice)
  IN [self |-> self, stream |-> inner.stream, ret |-> inner.ret]

\* -------------------------------------------------------------------- state

VARIABLES
  overflow_checks,  \* the build: TRUE when integer overflow checks are compiled in
  reader,           \* the stream a ReadCounter wraps (`d` in tests::read)
  rc,               \* the ReadCounter: <<>> before ReadCounter::from, then <<struct>>
  r_buf,            \* the caller's buffer as the last read left it
  r_ret,            \* what the last ReadCounter::read returned, or Panic
  r_ops,            \* ReadCounter::read calls made
  r_sum,            \* exact total of the sizes the successful reads returned
  r_seen,           \* what the last ReadCounter count() returned
  r_twin,           \* the same reader used directly: its state and its caller's buffer
  writer,           \* the stream a WriteCounter wraps (`b` in tests::write)
  wc,               \* the WriteCounter: <<>> before WriteCounter::from, then <<struct>>
  w_ret,            \* what the last WriteCounter::write or flush returned, or Panic
  w_ops,            \* WriteCounter::write calls made
  w_flushes,        \* WriteCounter::flush calls made
  w_sum,            \* exact total of the sizes the successful writes returned
  w_seen,           \* what the last WriteCounter count() returned
  w_twin            \* the same writer used directly

r_vars == <<reader, rc, r_buf, r_ret, r_ops, r_sum, r_seen, r_twin>>

w_vars == <<writer, wc, w_ret, w_ops, w_flushes, w_sum, w_seen, w_twin>>

vars == <<overflow_checks, r_vars, w_vars>>

NoBuffer == [len |-> Zero, win |-> <<>>]

\* A stream exists before it is wrapped.  It may be fresh (`let mut d = DATA;` and
\* `Vec::new()` in the tests), or already used directly: a reader that has produced
\* a byte and a writer that holds one, or a reader and a writer whose last call
\* failed.
OneByteRead == [len |-> U(1), win |-> <<0>>]

OneByteWrite == [len |-> U(1), win |-> <<1>>]

UsedReader ==
  InnerRead(NewStream, OneByteRead,
            [ok |-> TRUE, size |-> U(1), bytes |-> <<1>>, kind |-> "-"]).stream

FailedReader ==
  InnerRead(NewStream, OneByteRead,
            [ok |-> FALSE, size |-> Zero, bytes |-> <<>>, kind |-> "BrokenPipe"]).stream

UsedWriter ==
  InnerWrite(NewStream, OneByteWrite, [ok |-> TRUE, size |-> U(1), kind |-> "-"]).stream

FailedWriter ==
  InnerWrite(NewStream, OneByteWrite, [ok |-> FALSE, size |-> Zero, kind |-> "BrokenPipe"]).stream

Starts ==
  {[reader |-> NewStream, writer |-> NewStream],
   [reader |-> UsedReader, writer |-> UsedWriter],
   [reader |-> FailedReader, writer |-> FailedWriter]}

Init ==
  /\ overflow_checks \in BOOLEAN
  /\ \E start \in Starts :
       /\ reader = start.reader
       /\ writer = start.writer
  /\ rc = <<>>
  /\ r_buf = NoBuffer
  /\ r_ret = NoRet
  /\ r_ops = 0
  /\ r_sum = Widen(Zero)
  /\ r_seen = Zero
  /\ r_twin = [stream |-> reader, buffer |-> NoBuffer]
  /\ wc = <<>>
  /\ w_ret = NoRet
  /\ w_ops = 0
  /\ w_flushes = 0
  /\ w_sum = Widen(Zero)
  /\ w_seen = Zero
  /\ w_twin = [stream |-> writer]

\* ------------------------------------------------------------------ actions

\* let mut r = ReadCounter::from(&mut d);
\* The two wrappers share no state, so a behaviour constructs and exercises one of
\* them (as tests::read and tests::write each do).
FromReader ==
  /\ rc = <<>>
  /\ wc = <<>>
  /\ LET c == ReadCounter_from(reader)
     IN /\ rc' = <<c.self>>
        /\ reader' = c.stream
  /\ UNCHANGED <<overflow_checks, r_buf, r_ret, r_ops, r_sum, r_seen, r_twin, w_vars>>

\* r.read(&mut b)
\* A read that panics leaves the count as it was before the addition; a caller
\* that catches the panic can go on using the wrapper.
Read ==
  /\ rc # <<>>
  /\ reader.calls < MaxCalls
  /\ \E buffer \in ReadBuffers : \E choice \in ReadChoices(buffer) :
       \E c \in {ReadCounter_read(rc[1], reader, buffer, choice, overflow_checks)} :
       \E direct \in {InnerRead(r_twin.stream, buffer, choice)} :
          /\ rc' = <<c.self>>
          /\ reader' = c.stream
          /\ r_buf' = c.buffer
          /\ r_ret' = c.ret
          /\ r_sum' = IF c.ret.tag = "Ok" THEN WideAdd(r_sum, c.ret.size) ELSE r_sum
          /\ r_twin' = [stream |-> direct.stream, buffer |-> direct.buffer]
  /\ r_ops' = r_ops + 1
  /\ UNCHANGED <<overflow_checks, r_seen, w_vars>>

\* r.count()
ReadCount ==
  /\ rc # <<>>
  /\ r_seen' = ReadCounter_count(rc[1])
  /\ UNCHANGED <<overflow_checks, reader, rc, r_buf, r_ret, r_ops, r_sum, r_twin, w_vars>>

\* let mut w = WriteCounter::from(&mut b);
FromWriter ==
  /\ wc = <<>>
  /\ rc = <<>>
  /\ LET c == WriteCounter_from(writer)
     IN /\ wc' = <<c.self>>
        /\ writer' = c.stream
  /\ UNCHANGED <<overflow_checks, r_vars, w_ret, w_ops, w_flushes, w_sum, w_seen, w_twin>>

\* w.write(&b)
Write ==
  /\ wc # <<>>
  /\ writer.calls + writer.flushes < MaxCalls
  /\ \E buffer \in WriteBuffers : \E choice \in WriteChoices(buffer) :
       \E c \in {WriteCounter_write(wc[1], writer, buffer, choice, overflow_checks)} :
       \E direct \in {InnerWrite(w_twin.stream, buffer, choice)} :
          /\ wc' = <<c.self>>
          /\ writer' = c.stream
          /\ w_ret' = c.ret
          /\ w_sum' = IF c.ret.tag = "Ok" THEN WideAdd(w_sum, c.ret.size) ELSE w_sum
          /\ w_twin' = [stream |-> direct.stream]
  /\ w_ops' = w_ops + 1
  /\ UNCHANGED <<overflow_checks, r_vars, w_flushes, w_seen>>

\* w.flush()
Flush ==
  /\ wc # <<>>
  /\ writer.calls + writer.flushes < MaxCalls
  /\ \E choice \in FlushChoices :
       LET c == WriteCounter_flush(wc[1], writer, choice)
           direct == InnerFlush(w_twin.stream, choice)
       IN /\ wc' = <<c.self>>
          /\ writer' = c.stream
          /\ w_ret' = c.ret
          /\ w_twin' = [stream |-> direct.stream]
  /\ w_flushes' = w_flushes + 1
  /\ UNCHANGED <<overflow_checks, r_vars, w_ops, w_sum, w_seen>>

\* w.count()
WriteCount ==
  /\ wc # <<>>
  /\ w_seen' = WriteCounter_count(wc[1])
  /\ UNCHANGED <<overflow_checks, r_vars, writer, wc, w_ret, w_ops, w_flushes, w_sum, w_twin>>

Next == FromReader \/ Read \/ ReadCount \/ FromWriter \/ Write \/ Flush \/ WriteCount

Spec == Init /\ [][Next]_vars

\* ------------------------------------------------------------------ claims

\* The low limbs of an exact total: the total modulo 2^64.
Low(total) == SubSeq(total, 1, Len(Zero))

\* An exact total exceeds usize::MAX.
Exceeds(total) == total[Len(total)] # 0

\* C1: after any sequence of ReadCounter::read calls, count() equals the sum of the
\* byte counts the successful reads returned.
C1_ReadCountIsSum ==
  rc # <<>> => Widen(ReadCounter_count(rc[1])) = r_sum

\* C2: after any sequence of WriteCounter::write calls, count() equals the sum of the
\* byte counts the wrapped writer reported for the successful writes.
C2_WriteCountIsSum ==
  wc # <<>> => Widen(WriteCounter_count(wc[1])) = w_sum

\* C3: a read or write that returns the wrapped stream's error leaves count() as it
\* was before the call.
C3_ErrorKeepsCount ==
  [][ /\ (r_ops' = r_ops + 1 /\ r_ret'.tag = "Err")
         => ReadCounter_count(rc'[1]) = ReadCounter_count(rc[1])
      /\ (w_ops' = w_ops + 1 /\ w_ret'.tag = "Err")
         => WriteCounter_count(wc'[1]) = WriteCounter_count(wc[1]) ]_vars

\* C3 witness: a read failed after earlier reads had counted bytes.
C3_Witness ==
  rc # <<>> /\ r_ops >= 2 /\ r_ret.tag = "Err" /\ ReadCounter_count(rc[1]) # Zero

\* C4: the count is never the wrapped-around total: no state has a total above
\* usize::MAX with count() equal to that total modulo 2^64.
C4_NoSilentWrap ==
  /\ rc # <<>> => ~(Exceeds(r_sum) /\ ReadCounter_count(rc[1]) = Low(r_sum))
  /\ wc # <<>> => ~(Exceeds(w_sum) /\ WriteCounter_count(wc[1]) = Low(w_sum))

\* C5: the wrapper alters no content: the wrapped stream and the caller's buffer are
\* left exactly as the same calls made on the stream directly leave them.
C5_PassThrough ==
  /\ rc # <<>> => (reader = r_twin.stream /\ r_buf = r_twin.buffer)
  /\ wc # <<>> => writer = w_twin.stream

\* C5 witness: two reads through the wrapper have each put a byte in the caller's buffer.
C5_Witness ==
  rc # <<>> /\ r_ops = 2 /\ Len(reader.data) >= 2 /\ r_buf.win # Zeros(Len(r_buf.win))

\* C6: a read, write or flush that returns, returns the result of the wrapped
\* stream's call: the same byte count or the same error.
C6_SameResult ==
  /\ (rc # <<>> /\ r_ops > 0 /\ r_ret # Panic) => r_ret = reader.last
  /\ (wc # <<>> /\ w_ops + w_flushes > 0 /\ w_ret # Panic) => w_ret = writer.last

\* C6 witness: a partial write, of fewer bytes than the buffer held.
C6_Witness ==
  wc # <<>> /\ w_ops > 0 /\ w_ret = Ok(U(1)) /\ writer.arg.len = IsizeMax

\* C7: flush leaves count() unchanged, whether the wrapped flush succeeds or fails,
\* and returns the wrapped flush's result.
C7_FlushNoCount ==
  [][ w_flushes' = w_flushes + 1
        => /\ WriteCounter_count(wc'[1]) = WriteCounter_count(wc[1])
           /\ w_ret' = writer'.last
           /\ writer'.flushes = writer.flushes + 1 ]_vars

\* C7 witness: a flush succeeded after a write had counted a byte.
C7_Witness ==
  wc # <<>> /\ w_flushes > 0 /\ w_ret.tag = "Ok" /\ WriteCounter_count(wc[1]) # Zero

\* C8: right after from(), before any read, write or flush, count() is 0 whatever
\* the wrapped stream holds or has done, and the stream is as it was before the
\* wrapper was made.
C8_FreshCountIsZero ==
  /\ (rc # <<>> /\ r_ops = 0)
       => /\ ReadCounter_count(rc[1]) = Zero
          /\ reader = r_twin.stream
          /\ reader \in {st.reader : st \in Starts}
  /\ (wc # <<>> /\ w_ops + w_flushes = 0)
       => /\ WriteCounter_count(wc[1]) = Zero
          /\ writer = w_twin.stream
          /\ writer \in {st.writer : st \in Starts}

\* C8 witness: a ReadCounter made over a reader that has already produced a byte,
\* with no read made through it yet.
C8_Witness == rc # <<>> /\ r_ops = 0 /\ reader = UsedReader

\* C9: the values count() returns never decrease.
C9_CountMonotonic == [][Leq(r_seen, r_seen') /\ Leq(w_seen, w_seen')]_vars

\* C10: each read, write and flush makes exactly one call of the same operation on
\* the wrapped stream, with the caller's buffer; from() and count() make none.
C10_OneInnerCall ==
  [][ /\ r_ops' = r_ops + 1
         => /\ reader'.calls = reader.calls + 1
            /\ reader'.arg = r_twin'.stream.arg
      /\ w_ops' = w_ops + 1
         => /\ writer'.calls = writer.calls + 1
            /\ writer'.flushes = writer.flushes
            /\ writer'.arg = w_twin'.stream.arg
      /\ w_flushes' = w_flushes + 1
         => /\ writer'.flushes = writer.flushes + 1
            /\ writer'.calls = writer.calls
      /\ (r_ops' = r_ops /\ w_ops' = w_ops /\ w_flushes' = w_flushes)
         => (reader' = reader /\ writer' = writer) ]_vars

\* C10 witness: a read that failed with Interrupted, after which the fresh reader
\* has served exactly as many calls as the wrapper made.
C10_Witness ==
  /\ rc # <<>> /\ r_ops = 2 /\ reader.calls = 2
  /\ r_ret = Err("Interrupted")

====
